---------------------------- MODULE Spec2Model ----------------------------
(***************************************************************************)
(* A model of the just-dep interpreter: the combiner (combine.rs), the     *)
(* structural type checker (typecheck.rs) and the evaluator (eval.rs).     *)
(*                                                                         *)
(* combine is modelled step by step (one action per loop iteration and per *)
(* entry to / exit from visit_for_ordering); the type checker and the      *)
(* evaluator are pure functions, modelled as recursive operators that are  *)
(* applied by one action to inputs drawn from bounded sets.                *)
(***************************************************************************)
EXTENDS Integers, Sequences, FiniteSets, TLC

VARIABLES
    pc,              \* where the modelled function is: see each specification
    prelude_script,  \* combine: the prelude's declarations, in source order
    main_script,     \* combine: the user script's declarations, in source order
    funcs,           \* combine: the merged map  name -> Func
    visits,          \* combine: the marker map  name -> Visiting | Visited
    order,           \* combine: program.order
    stack,           \* combine: the active visit_for_ordering calls
    idx,             \* combine: the index of the running for loop
    result,          \* combine: the value combine returned
    co_sub, co_sup,  \* can_coerce_type: its two type-expressions
    co_result,       \* can_coerce_type: the boolean it returned
    tc_funcs,        \* check_expr / check_func: the checked signatures
    tc_env,          \* check_expr: the environment  name -> type-expression
    tc_expr,         \* check_expr: the expression being checked
    tc_func,         \* check_func: the declaration being checked
    tc_result,       \* check_expr / check_func: the Result returned
    ev_funcs,        \* eval_main: self.funcs
    ev_args,         \* eval_main: the argument strings
    ev_result        \* eval_main: the Result returned, with the trace of the run

combineVars == <<prelude_script, main_script, funcs, visits, order, stack, idx, result>>
coerceVars  == <<co_sub, co_sup, co_result>>
checkVars   == <<tc_funcs, tc_env, tc_expr, tc_func, tc_result>>
evalVars    == <<ev_funcs, ev_args, ev_result>>
vars == <<pc, combineVars, coerceVars, checkVars, evalVars>>

---------------------------------------------------------------------------
(* ast.rs: Expr.  Every variant is a record of the same shape, so that     *)
(* structural equality (the derived PartialEq) is record equality.         *)

ExprInt(n)  == [tag |-> "Int",   n |-> n, name |-> "", xs |-> <<>>]
Var(x)      == [tag |-> "Var",   n |-> 0, name |-> x,  xs |-> <<>>]
Call(f, xs) == [tag |-> "Call",  n |-> 0, name |-> f,  xs |-> xs]
Array(xs)   == [tag |-> "Array", n |-> 0, name |-> "", xs |-> xs]

(* ast.rs: Func, and a script entry (name, Func).                          *)
Arg(name, typ)        == [name |-> name, typ |-> typ]
Func(args, ret, body) == [args |-> args, ret |-> ret, body |-> body]
Entry(name, decl)     == [name |-> name, decl |-> decl]

(* HashMap::insert and HashMap::new.                                       *)
Put(m, k, v) == [x \in (DOMAIN m) \cup {k} |-> IF x = k THEN v ELSE m[x]]
EmptyMap     == << >>

(* Vec::contains and the set of a Vec's elements.                          *)
Range(s)       == {s[i] : i \in DOMAIN s}
Contains(s, x) == x \in Range(s)

---------------------------------------------------------------------------
(*                              combine.rs                                 *)

(* combine.rs: Func, the merged map's value.                               *)
ProgramFunc(decl, prelude) ==
    [args |-> decl.args, ret |-> decl.ret, body |-> decl.body, prelude |-> prelude]

(* The chained iterator of combine's first loop: the prelude's             *)
(* declarations tagged true, then the user's tagged false.                 *)
Chained ==
    [i \in 1..(Len(prelude_script) + Len(main_script)) |->
        IF i <= Len(prelude_script)
        THEN [name |-> prelude_script[i].name, decl |-> prelude_script[i].decl,
              prelude |-> TRUE]
        ELSE [name |-> main_script[i - Len(prelude_script)].name,
              decl |-> main_script[i - Len(prelude_script)].decl,
              prelude |-> FALSE]]

prelude_order == [i \in 1..Len(prelude_script) |-> prelude_script[i].name]

RECURSIVE add_dependencies(_, _)
RECURSIVE add_dependencies_each(_, _)

(* The "for x in xs { add_dependencies(x, result) }" loops.                *)
add_dependencies_each(xs, deps) ==
    IF xs = <<>> THEN deps
    ELSE add_dependencies_each(Tail(xs), add_dependencies(Head(xs), deps))

add_dependencies_vars_only(expr, deps) ==
    CASE expr.tag = "Int"   -> deps
      [] expr.tag = "Var"   ->
            IF Contains(deps, expr.name) THEN deps ELSE Append(deps, expr.name)
      [] expr.tag = "Call"  -> add_dependencies_each(expr.xs, deps)
      [] expr.tag = "Array" -> add_dependencies_each(expr.xs, deps)

add_dependencies(expr, deps) ==
    CASE expr.tag = "Int"   -> deps
      [] expr.tag = "Var"   ->
            IF Contains(deps, expr.name) THEN deps ELSE Append(deps, expr.name)
      [] expr.tag = "Call"  ->
            add_dependencies_each(expr.xs,
                IF Contains(deps, expr.name) THEN deps ELSE Append(deps, expr.name))
      [] expr.tag = "Array" -> add_dependencies_each(expr.xs, deps)

(* The Ok branch of get_dependencies: argument types in order, then the    *)
(* return type, then the body.                                             *)
get_dependencies(func) ==
    LET argTypes == [i \in 1..Len(func.args) |-> func.args[i].typ]
    IN  add_dependencies(func.body,
            add_dependencies(func.ret,
                add_dependencies_each(argTypes, <<>>)))

NoResult  == [kind |-> "none", name |-> ""]
CombineOk == [kind |-> "Ok", name |-> ""]
CombineError(kind, name) == [kind |-> kind, name |-> name]

(* combine returns Err: the ? operator unwinds every active call.          *)
Fail(kind, name) ==
    /\ result' = CombineError(kind, name)
    /\ stack' = <<>>
    /\ pc' = "done"

(* What no step of combine changes: its two arguments, and the state of    *)
(* the other components.                                                   *)
CombineFrame ==
    UNCHANGED <<prelude_script, main_script, coerceVars, checkVars, evalVars>>

(* One iteration of combine's first loop (lines 33-44).                    *)
InsertDeclOverwrite ==
    /\ CombineFrame
    /\ pc = "insert"
    /\ idx <= Len(Chained)
    /\ funcs' = Put(funcs, Chained[idx].name,
                    ProgramFunc(Chained[idx].decl, Chained[idx].prelude))
    /\ idx' = idx + 1
    /\ UNCHANGED <<pc, result, stack, visits, order>>

InsertDecl ==
    /\ CombineFrame
    /\ pc = "insert"
    /\ idx <= Len(Chained)
    /\ IF Chained[idx].name \in DOMAIN funcs
       THEN /\ Fail("DuplicateDecl", Chained[idx].name)
            /\ UNCHANGED <<funcs, idx, visits, order>>
       ELSE /\ funcs' = Put(funcs, Chained[idx].name,
                            ProgramFunc(Chained[idx].decl, Chained[idx].prelude))
            /\ idx' = idx + 1
            /\ UNCHANGED <<pc, result, stack, visits, order>>

(* Lines 46-55: the first loop is over; every prelude name is marked       *)
(* Visited and program.order starts as the prelude's order.                *)
StartOrdering ==
    /\ CombineFrame
    /\ pc = "insert"
    /\ idx > Len(Chained)
    /\ visits' = [n \in Range(prelude_order) |-> "Visited"]
    /\ order' = prelude_order
    /\ idx' = 1
    /\ pc' = "order"
    /\ UNCHANGED <<funcs, stack, result>>

(* A call visit_for_ordering(program, name, visits), made with `callers`   *)
(* as the calls that stay active below it: up to the loop over the         *)
(* dependencies (lines 63-70).                                             *)
visit_for_ordering_no_cycle_check(name, callers) ==
    IF name \in DOMAIN visits
    THEN /\ stack' = callers
         /\ UNCHANGED <<visits, result, pc>>
    ELSE /\ visits' = Put(visits, name, "Visiting")
         /\ IF name \in DOMAIN funcs
            THEN /\ stack' = Append(callers,
                        [name |-> name, deps |-> get_dependencies(funcs[name]), i |-> 1])
                 /\ UNCHANGED <<result, pc>>
            ELSE Fail("NoSuchDecl", name)

visit_for_ordering_revisit(name, callers) ==
    IF name \in DOMAIN visits /\ visits[name] = "Visiting"
    THEN /\ Fail("Recursion", name)
         /\ UNCHANGED visits
    ELSE /\ visits' = Put(visits, name, "Visiting")
         /\ IF name \in DOMAIN funcs
            THEN /\ stack' = Append(callers,
                        [name |-> name, deps |-> get_dependencies(funcs[name]), i |-> 1])
                 /\ UNCHANGED <<result, pc>>
            ELSE Fail("NoSuchDecl", name)

visit_for_ordering(name, callers) ==
    IF name \in DOMAIN visits
    THEN IF visits[name] = "Visited"
         THEN /\ stack' = callers
              /\ UNCHANGED <<visits, result, pc>>
         ELSE /\ Fail("Recursion", name)
              /\ UNCHANGED visits
    ELSE /\ visits' = Put(visits, name, "Visiting")
         /\ IF name \in DOMAIN funcs
            THEN /\ stack' = Append(callers,
                        [name |-> name, deps |-> get_dependencies(funcs[name]), i |-> 1])
                 /\ UNCHANGED <<result, pc>>
            ELSE Fail("NoSuchDecl", name)

(* combine's second loop (lines 56-58): the next user declaration.         *)
VisitMain ==
    /\ CombineFrame
    /\ pc = "order"
    /\ stack = <<>>
    /\ idx <= Len(main_script)
    /\ visit_for_ordering(main_script[idx].name, <<>>)
    /\ idx' = idx + 1
    /\ UNCHANGED <<funcs, order>>

(* visit_for_ordering's loop (lines 70-72): the next dependency of the     *)
(* innermost active call.                                                  *)
VisitDep ==
    /\ CombineFrame
    /\ pc = "order"
    /\ stack # <<>>
    /\ LET top == stack[Len(stack)]
       IN  /\ top.i <= Len(top.deps)
           /\ visit_for_ordering(top.deps[top.i],
                  [stack EXCEPT ![Len(stack)].i = top.i + 1])
    /\ UNCHANGED <<funcs, order, idx>>

(* Lines 73-75: every dependency is visited; mark the name Visited and     *)
(* push it on program.order.                                               *)
VisitDonePrepend ==
    /\ CombineFrame
    /\ pc = "order"
    /\ stack # <<>>
    /\ LET top == stack[Len(stack)]
       IN  /\ top.i > Len(top.deps)
           /\ visits' = Put(visits, top.name, "Visited")
           /\ order' = <<top.name>> \o order
           /\ stack' = SubSeq(stack, 1, Len(stack) - 1)
    /\ UNCHANGED <<funcs, idx, result, pc>>

VisitDone ==
    /\ CombineFrame
    /\ pc = "order"
    /\ stack # <<>>
    /\ LET top == stack[Len(stack)]
       IN  /\ top.i > Len(top.deps)
           /\ visits' = Put(visits, top.name, "Visited")
           /\ order' = Append(order, top.name)
           /\ stack' = SubSeq(stack, 1, Len(stack) - 1)
    /\ UNCHANGED <<funcs, idx, result, pc>>

(* Line 59: Ok(program).                                                   *)
CombineReturn ==
    /\ CombineFrame
    /\ pc = "order"
    /\ stack = <<>>
    /\ idx > Len(main_script)
    /\ result' = CombineOk
    /\ pc' = "done"
    /\ UNCHANGED <<funcs, visits, order, stack, idx>>

---------------------------------------------------------------------------
(*                        typecheck.rs: coercion                           *)

(* Option<T>: None, or Some(x).                                            *)
None    == <<>>
Some(x) == <<x>>

is_label_any_var(e, label) == e.tag = "Var"

is_label(e, label) == e.tag = "Var" /\ e.name = label

is_list_type(e) ==
    IF e.tag = "Call" /\ e.name = "list" /\ Len(e.xs) = 1 THEN Some(e.xs[1]) ELSE None

(* As written in the source: the name tested is "list", with two           *)
(* arguments.                                                              *)
is_vector_type(e) ==
    IF e.tag = "Call" /\ e.name = "list" /\ Len(e.xs) = 2
    THEN Some(<<e.xs[1], e.xs[2]>>) ELSE None

is_tuple_type(e) ==
    IF e.tag = "Call" /\ e.name = "tuple" /\ Len(e.xs) = 1 THEN Some(e.xs[1]) ELSE None

is_explicit_array(e) == IF e.tag = "Array" THEN Some(e.xs) ELSE None

(* Only written identically counts as equal.                               *)
can_prove_equal(a, b) == a = b

can_prove_equal_usize(a, b) == can_prove_equal(a, ExprInt(b))

RECURSIVE can_coerce_type(_, _)

(* The first five branches of can_coerce_type after its first test; funcs  *)
(* and env are only handed on by the source and never read.                *)
coerce_by_shape(sub, sup) ==
    IF is_label(sup, "int") THEN
        is_label(sub, "uint")
    ELSE IF is_list_type(sup) # None THEN
        LET t1 == is_list_type(sup)[1]
        IN  IF is_list_type(sub) # None THEN
                can_coerce_type(is_list_type(sub)[1], t1)
            ELSE IF is_vector_type(sub) # None THEN
                can_coerce_type(is_vector_type(sub)[1][1], t1)
            ELSE IF is_tuple_type(sub) # None THEN
                IF is_explicit_array(is_tuple_type(sub)[1]) # None THEN
                    LET ts == is_explicit_array(is_tuple_type(sub)[1])[1]
                    IN  \A i \in DOMAIN ts : can_coerce_type(ts[i], t1)
                ELSE FALSE
            ELSE FALSE
    ELSE IF is_vector_type(sup) # None THEN
        LET t1 == is_vector_type(sup)[1][1]
            n  == is_vector_type(sup)[1][2]
        IN  IF is_vector_type(sub) # None THEN
                /\ can_coerce_type(is_vector_type(sub)[1][1], t1)
                /\ can_prove_equal(is_vector_type(sub)[1][2], n)
            ELSE IF is_tuple_type(sub) # None THEN
                IF is_explicit_array(is_tuple_type(sub)[1]) # None THEN
                    LET ts == is_explicit_array(is_tuple_type(sub)[1])[1]
                    IN  /\ can_prove_equal_usize(n, Len(ts))
                        /\ \A i \in DOMAIN ts : can_coerce_type(ts[i], t1)
                ELSE FALSE
            ELSE FALSE
    ELSE IF is_tuple_type(sup) # None THEN
        IF is_explicit_array(is_tuple_type(sup)[1]) # None THEN
            LET ts1 == is_explicit_array(is_tuple_type(sup)[1])[1]
            IN  IF is_tuple_type(sub) # None THEN
                    IF is_vector_type(sub) # None THEN
                        /\ can_prove_equal_usize(is_vector_type(sub)[1][2], Len(ts1))
                        /\ \A i \in DOMAIN ts1 :
                                can_coerce_type(is_vector_type(sub)[1][1], ts1[i])
                    ELSE IF is_explicit_array(is_tuple_type(sub)[1]) # None THEN
                        LET ts0 == is_explicit_array(is_tuple_type(sub)[1])[1]
                        IN  /\ Len(ts0) = Len(ts1)
                            /\ \A i \in DOMAIN ts0 : can_coerce_type(ts0[i], ts1[i])
                    ELSE FALSE
                ELSE FALSE
        ELSE FALSE
    ELSE FALSE

can_coerce_type_no_identity(sub, sup) ==
    IF is_label(sub, "false") THEN TRUE ELSE coerce_by_shape(sub, sup)

can_coerce_type(sub, sup) ==
    IF sub = sup \/ is_label(sub, "false") THEN TRUE ELSE coerce_by_shape(sub, sup)

(* One call of can_coerce_type.                                            *)
CanCoerce ==
    /\ pc = "coerce"
    /\ co_result' = can_coerce_type(co_sub, co_sup)
    /\ pc' = "done"
    /\ UNCHANGED <<co_sub, co_sup, combineVars, checkVars, evalVars>>

---------------------------------------------------------------------------
(*                  typecheck.rs: check_expr, check_func                   *)

(* cfuncs is the source's funcs: the checked signatures so far.            *)

(* Result<Expr, TypeError>, and the variants of TypeError.                 *)
Ok(v) == [kind |-> "Ok", val |-> v]
IsOk(r) == r.kind = "Ok"

ExpectedArgToBeOfTypeType(name, expr, t) ==
    [kind |-> "ExpectedArgToBeOfTypeType", name |-> name, expr |-> expr, t |-> t]
DuplicateArgName(name) == [kind |-> "DuplicateArgName", name |-> name]
CannotCoerceReturnType(t, ret) == [kind |-> "CannotCoerceReturnType", t |-> t, ret |-> ret]
CannotCoerceArgumentType(f, i, x, t, t1) ==
    [kind |-> "CannotCoerceArgumentType", name |-> f, i |-> i, x |-> x, t |-> t, t1 |-> t1]
NoSuchFunc(f) == [kind |-> "NoSuchFunc", name |-> f]
NoSuchVar(x)  == [kind |-> "NoSuchVar", name |-> x]
WrongNumberOfArgs(f, expected, got) ==
    [kind |-> "WrongNumberOfArgs", name |-> f, expected |-> expected, got |-> got]

CheckedFunc(args, ret) == [args |-> args, ret |-> ret]

(* collect::<Result<Vec<_>,_>>(): the first Err in order, or the Vec of    *)
(* the Ok values.                                                          *)
Collect(rs) ==
    IF \E i \in DOMAIN rs : ~IsOk(rs[i])
    THEN rs[CHOOSE i \in DOMAIN rs : ~IsOk(rs[i]) /\ \A j \in 1..(i - 1) : IsOk(rs[j])]
    ELSE Ok([i \in DOMAIN rs |-> rs[i].val])

RECURSIVE map_vars(_, _)
map_vars(e, var_mapping) ==
    CASE e.tag = "Int"   -> Ok(e)
      [] e.tag = "Var"   ->
            IF e.name \in DOMAIN var_mapping THEN Ok(var_mapping[e.name])
            ELSE NoSuchVar(e.name)
      [] e.tag = "Call"  ->
            LET xs == Collect([i \in DOMAIN e.xs |-> map_vars(e.xs[i], var_mapping)])
            IN  IF IsOk(xs) THEN Ok(Call(e.name, xs.val)) ELSE xs
      [] e.tag = "Array" ->
            LET xs == Collect([i \in DOMAIN e.xs |-> map_vars(e.xs[i], var_mapping)])
            IN  IF IsOk(xs) THEN Ok(Array(xs.val)) ELSE xs

(* The loop over the formals of a call (lines 74-83) from formal i on      *)
(* (counted from 1; the error carries the source's index, from 0), and     *)
(* the substituted return type after it (line 84).                         *)
RECURSIVE check_formals(_, _, _, _, _, _)
check_formals(cf, f, xs, ts, i, var_mapping) ==
    IF i > Len(ts)
    THEN map_vars(cf.ret, var_mapping)
    ELSE LET t1 == map_vars(cf.args[i].typ, var_mapping)
         IN  IF ~IsOk(t1) THEN t1
             ELSE IF ~can_coerce_type(ts[i], t1.val)
                 THEN CannotCoerceArgumentType(f, i - 1, xs[i], ts[i], t1.val)
             ELSE IF cf.args[i].name \in DOMAIN var_mapping
                 THEN DuplicateArgName(cf.args[i].name)
             ELSE check_formals(cf, f, xs, ts, i + 1,
                                Put(var_mapping, cf.args[i].name, xs[i]))

RECURSIVE check_expr(_, _, _)

(* The Call arm of check_expr (lines 69-91).                               *)
check_call_actuals_first(f, xs, cfuncs, env) ==
    IF f \in DOMAIN cfuncs
    THEN LET cf == cfuncs[f]
             ts == Collect([i \in DOMAIN xs |-> check_expr(xs[i], cfuncs, env)])
         IN  IF ~IsOk(ts) THEN ts
             ELSE IF Len(cf.args) = Len(xs)
                 THEN check_formals(cf, f, xs, ts.val, 1, EmptyMap)
             ELSE WrongNumberOfArgs(f, Len(cf.args), Len(xs))
    ELSE NoSuchFunc(f)

check_call(f, xs, cfuncs, env) ==
    IF f \in DOMAIN cfuncs
    THEN LET cf == cfuncs[f]
         IN  IF Len(cf.args) = Len(xs)
             THEN LET ts == Collect([i \in DOMAIN xs |-> check_expr(xs[i], cfuncs, env)])
                  IN  IF IsOk(ts) THEN check_formals(cf, f, xs, ts.val, 1, EmptyMap)
                      ELSE ts
             ELSE WrongNumberOfArgs(f, Len(cf.args), Len(xs))
    ELSE NoSuchFunc(f)

check_expr(expr, cfuncs, env) ==
    CASE expr.tag = "Int"   -> IF expr.n < 0 THEN Ok(Var("int")) ELSE Ok(Var("uint"))
      [] expr.tag = "Var"   ->
            IF expr.name \in DOMAIN env THEN Ok(env[expr.name]) ELSE NoSuchVar(expr.name)
      [] expr.tag = "Call"  -> check_call(expr.name, expr.xs, cfuncs, env)
      [] expr.tag = "Array" ->
            LET ts == Collect([i \in DOMAIN expr.xs |-> check_expr(expr.xs[i], cfuncs, env)])
            IN  IF IsOk(ts) THEN Ok(Call("tuple", <<Array(ts.val)>>)) ELSE ts

check_arg_is_of_type_type(name, expr, cfuncs, env) ==
    LET t == check_expr(expr, cfuncs, env)
    IN  IF ~IsOk(t) THEN t
        ELSE IF can_coerce_type(t.val, Var("type")) THEN Ok(<<>>)
        ELSE ExpectedArgToBeOfTypeType(name, expr, t.val)

(* check_func from its argument i on, env holding the arguments before i   *)
(* (lines 24-30), and then the body and the return type (lines 32-40).     *)
RECURSIVE check_func_from(_, _, _, _)
check_func_from(func, cfuncs, i, env) ==
    IF i <= Len(func.args)
    THEN LET arg == func.args[i]
             c   == check_arg_is_of_type_type(arg.name, arg.typ, cfuncs, env)
         IN  IF ~IsOk(c) THEN c
             ELSE IF arg.name \in DOMAIN env THEN DuplicateArgName(arg.name)
             ELSE check_func_from(func, cfuncs, i + 1, Put(env, arg.name, arg.typ))
    ELSE LET t == check_expr(func.body, cfuncs, env)
         IN  IF ~IsOk(t) THEN t
             ELSE IF ~can_coerce_type(t.val, func.ret)
                 THEN CannotCoerceReturnType(t.val, func.ret)
             ELSE Ok(CheckedFunc(func.args, func.ret))

check_func(func, cfuncs) == check_func_from(func, cfuncs, 1, EmptyMap)

CheckFrame == UNCHANGED <<tc_funcs, tc_env, tc_expr, tc_func, combineVars, coerceVars, evalVars>>

(* One call of check_expr.                                                 *)
CheckExpr ==
    /\ pc = "check"
    /\ tc_result' = check_expr(tc_expr, tc_funcs, tc_env)
    /\ pc' = "checked_expr"
    /\ CheckFrame

(* One call of check_func.                                                 *)
CheckFunc ==
    /\ pc = "check"
    /\ tc_result' = check_func(tc_func, tc_funcs)
    /\ pc' = "checked_func"
    /\ CheckFrame

---------------------------------------------------------------------------
(*                                eval.rs                                  *)

(* Type.                                                                   *)
TypeBool   == [tag |-> "Bool"]
TypeInt    == [tag |-> "Int"]
TypeUint   == [tag |-> "Uint"]
TypeString == [tag |-> "String"]
TypeType   == [tag |-> "Type"]
TypeList(t)      == [tag |-> "List", elem |-> t]
TypeVector(t, n) == [tag |-> "Vector", elem |-> t, len |-> n]
TypeTuple(ts)    == [tag |-> "Tuple", elems |-> ts]

(* Val.                                                                    *)
ValBool(b)   == [tag |-> "Bool", b |-> b]
ValInt(n)    == [tag |-> "Int", n |-> n]
ValString(s) == [tag |-> "String", s |-> s]
ValArray(xs) == [tag |-> "Array", xs |-> xs]
ValType(t)   == [tag |-> "Type", t |-> t]

(* EvalError (the variants of the same name in TypeError are defined       *)
(* above, hence the prefix).                                               *)
EvalWrongNumberOfArgs(f, expected, got) ==
    [kind |-> "WrongNumberOfArgs", name |-> f, expected |-> expected, got |-> got]
EvalNoSuchVar(x)    == [kind |-> "NoSuchVar", name |-> x]
EvalNoSuchFunc(f)   == [kind |-> "NoSuchFunc", name |-> f]
ArgTypeEvalError(name, e) == [kind |-> "ArgTypeEvalError", name |-> name, e |-> e]
ArgTypeNotType(name) == [kind |-> "ArgTypeNotType", name |-> name]
ArgIsWrongType(name, t, v) == [kind |-> "ArgIsWrongType", name |-> name, t |-> t, v |-> v]
RetTypeEvalError(e) == [kind |-> "RetTypeEvalError", e |-> e]
RetTypeNotType      == [kind |-> "RetTypeNotType"]
ResultIsWrongType   == [kind |-> "ResultIsWrongType"]
Overflow            == [kind |-> "Overflow"]
UnexpectedError     == [kind |-> "UnexpectedError"]

(* Val::unwrap_usize: to_usize fails on a negative integer (the integers   *)
(* of the inputs stay far below usize::MAX).                               *)
unwrap_usize(v) ==
    IF v.tag = "Int" THEN (IF v.n < 0 THEN Overflow ELSE Ok(v.n)) ELSE UnexpectedError

unwrap_type(v) == IF v.tag = "Type" THEN Ok(v.t) ELSE UnexpectedError

unwrap_array(v) == IF v.tag = "Array" THEN Ok(v.xs) ELSE UnexpectedError

unwrap_array_of_types(v) ==
    LET xs == unwrap_array(v)
    IN  IF IsOk(xs) THEN Collect([i \in DOMAIN xs.val |-> unwrap_type(xs.val[i])]) ELSE xs

lookup_value(name, env) ==
    CASE name = "true"   -> Ok(ValBool(TRUE))
      [] name = "false"  -> Ok(ValBool(FALSE))
      [] name = "bool"   -> Ok(ValType(TypeBool))
      [] name = "int"    -> Ok(ValType(TypeInt))
      [] name = "uint"   -> Ok(ValType(TypeUint))
      [] name = "string" -> Ok(ValType(TypeString))
      [] name = "type"   -> Ok(ValType(TypeType))
      [] OTHER           ->
            IF name \in DOMAIN env THEN Ok(env[name]) ELSE EvalNoSuchVar(name)

lookup_fn(self, name) ==
    CASE name = "list"   ->
            Ok(Func(<<Arg("t", Var("type"))>>, Var("type"), Var("")))
      [] name = "vector" ->
            Ok(Func(<<Arg("t", Var("type")), Arg("n", Var("uint"))>>, Var("type"), Var("")))
      [] name = "tuple"  ->
            Ok(Func(<<Arg("ts", Call("list", <<Var("type")>>))>>, Var("type"), Var("")))
      [] OTHER           ->
            IF name \in DOMAIN self THEN Ok(self[name]) ELSE EvalNoSuchFunc(name)

RECURSIVE has_type(_, _)
has_type(value, typ) ==
    CASE value.tag = "Bool"   /\ typ.tag = "Bool"   -> TRUE
      [] value.tag = "Int"    /\ typ.tag = "Int"    -> TRUE
      [] value.tag = "String" /\ typ.tag = "String" -> TRUE
      [] value.tag = "Type"   /\ typ.tag = "Type"   -> TRUE
      [] value.tag = "Int"    /\ typ.tag = "Uint"   -> value.n >= 0
      [] value.tag = "Array"  /\ typ.tag = "List"   ->
            \A i \in DOMAIN value.xs : has_type(value.xs[i], typ.elem)
      [] value.tag = "Array"  /\ typ.tag = "Vector" ->
            /\ Len(value.xs) = typ.len
            /\ \A i \in DOMAIN value.xs : has_type(value.xs[i], typ.elem)
      [] value.tag = "Array"  /\ typ.tag = "Tuple"  ->
            /\ Len(value.xs) = Len(typ.elems)
            /\ \A i \in DOMAIN value.xs : has_type(value.xs[i], typ.elems[i])
      [] OTHER -> FALSE

(* What a call of eval or call hands back: its Result, and the trace of    *)
(* what the call evaluated, in order: a Var expression, or the body of a   *)
(* declaration.  The trace is the model's instrument, not program state.   *)
Ran(res, log)  == [res |-> res, log |-> log]
VarEvent(x)    == [ev |-> "var", name |-> x]
BodyEvent(f)   == [ev |-> "body", name |-> f]

RECURSIVE eval(_, _, _)
RECURSIVE call(_, _, _)

(* The loop of call over the formals (lines 136-148) from formal i on,     *)
(* env holding the formals bound so far.                                   *)
RECURSIVE bind_args(_, _, _, _, _, _)
bind_args(self, func, args, i, env, log) ==
    IF i > Len(func.args) THEN Ran(Ok(env), log)
    ELSE LET name == func.args[i].name
             t    == eval(self, func.args[i].typ, env)
             here == log \o t.log
         IN  IF ~IsOk(t.res) THEN Ran(ArgTypeEvalError(name, t.res), here)
             ELSE IF t.res.val.tag # "Type" THEN Ran(ArgTypeNotType(name), here)
             ELSE IF has_type(args[i], t.res.val.t)
                 THEN bind_args(self, func, args, i + 1, Put(env, name, args[i]), here)
             ELSE Ran(ArgIsWrongType(name, t.res.val.t, args[i]), here)

(* The match on name of call (lines 155-163).                              *)
call_result(self, name, func, env) ==
    CASE name = "list"   ->
            LET t == unwrap_type(env["t"])
            IN  Ran(IF IsOk(t) THEN Ok(ValType(TypeList(t.val))) ELSE t, <<>>)
      [] name = "vector" ->
            LET t == unwrap_type(env["t"])
                n == unwrap_usize(env["n"])
            IN  Ran(IF ~IsOk(t) THEN t
                    ELSE IF ~IsOk(n) THEN n
                    ELSE Ok(ValType(TypeVector(t.val, n.val))), <<>>)
      [] name = "tuple"  ->
            LET ts == unwrap_array_of_types(env["ts"])
            IN  Ran(IF IsOk(ts) THEN Ok(ValType(TypeTuple(ts.val))) ELSE ts, <<>>)
      [] OTHER           ->
            LET b == eval(self, func.body, env)
            IN  Ran(b.res, <<BodyEvent(name)>> \o b.log)

call(self, name, args) ==
    LET func == lookup_fn(self, name)
    IN  IF ~IsOk(func) THEN Ran(func, <<>>)
        ELSE IF Len(func.val.args) # Len(args)
            THEN Ran(EvalWrongNumberOfArgs(name, Len(func.val.args), Len(args)), <<>>)
        ELSE LET bound == bind_args(self, func.val, args, 1, EmptyMap, <<>>)
             IN  IF ~IsOk(bound.res) THEN bound
                 ELSE LET env == bound.res.val
                          rt  == eval(self, func.val.ret, env)
                      IN  IF ~IsOk(rt.res)
                              THEN Ran(RetTypeEvalError(rt.res), bound.log \o rt.log)
                          ELSE IF rt.res.val.tag # "Type"
                              THEN Ran(RetTypeNotType, bound.log \o rt.log)
                          ELSE LET r == call_result(self, name, func.val, env)
                                   log == bound.log \o rt.log \o r.log
                               IN  IF ~IsOk(r.res) THEN Ran(r.res, log)
                                   ELSE IF has_type(r.res.val, rt.res.val.t)
                                       THEN Ran(r.res, log)
                                   ELSE Ran(ResultIsWrongType, log)

(* The loop of eval over the actuals of a Call (lines 177-180).            *)
RECURSIVE eval_actuals(_, _, _, _, _, _)
eval_actuals(self, args, env, i, arg_vals, log) ==
    IF i > Len(args) THEN Ran(Ok(arg_vals), log)
    ELSE LET a == eval(self, args[i], env)
         IN  IF IsOk(a.res)
             THEN eval_actuals(self, args, env, i + 1, Append(arg_vals, a.res.val),
                               log \o a.log)
             ELSE Ran(a.res, log \o a.log)

(* eval has the three arms of the source: Int, Var and Call (none for      *)
(* Array).                                                                 *)
eval(self, expr, env) ==
    CASE expr.tag = "Int"  -> Ran(Ok(ValInt(expr.n)), <<>>)
      [] expr.tag = "Var"  -> Ran(lookup_value(expr.name, env), <<VarEvent(expr.name)>>)
      [] expr.tag = "Call" ->
            LET a == eval_actuals(self, expr.xs, env, 1, <<>>, <<>>)
            IN  IF ~IsOk(a.res) THEN a
                ELSE LET c == call(self, expr.name, a.res.val)
                     IN  Ran(c.res, a.log \o c.log)

eval_main(self, args) ==
    call(self, "main", <<ValArray([i \in DOMAIN args |-> ValString(args[i])])>>)

(* One run of eval_main.                                                   *)
EvalMain ==
    /\ pc = "eval"
    /\ ev_result' = eval_main(ev_funcs, ev_args)
    /\ pc' = "evaluated"
    /\ UNCHANGED <<ev_funcs, ev_args, combineVars, coerceVars, checkVars>>

---------------------------------------------------------------------------
(*                      The inputs given to combine                        *)

MaxUserDecls == 3

(* A declaration without dependency, and one whose body names d.           *)
Leaf == Func(<<>>, ExprInt(0), ExprInt(1))
Ref(d) == Func(<<>>, ExprInt(0), Var(d))

(* The preludes: one that declares the user name a and no p; p alone,      *)
(* without dependency, depending on itself, depending on the user name a;  *)
(* and q before the p it depends on.                                       *)
PreludeScripts ==
    {<<Entry("a", Leaf)>>,
     <<Entry("p", Leaf)>>, <<Entry("p", Ref("p"))>>, <<Entry("p", Ref("a"))>>,
     <<Entry("q", Ref("p")), Entry("p", Leaf)>>}

UserNames == {"a", "b", "c"}

(* What a user declaration may be: without dependency; a body that is a    *)
(* Var of a user name; a typed declaration whose argument type and return  *)
(* type name the prelude's p and whose body calls a over an array naming   *)
(* b (p is undeclared under the first prelude).                            *)
UserDecls ==
    {Leaf}
    \cup {Ref(d) : d \in UserNames}
    \cup {Func(<<Arg("v", Var("p"))>>, Var("p"),
               Call("a", <<Array(<<Var("b"), ExprInt(1)>>), Var("b")>>))}

UserEntries == {Entry(n, d) : n \in UserNames, d \in UserDecls}

UserScripts == UNION {[1..n -> UserEntries] : n \in 0..MaxUserDecls}

CombineIdle ==
    /\ prelude_script = <<>> /\ main_script = <<>>
    /\ funcs = EmptyMap /\ visits = EmptyMap /\ order = <<>>
    /\ stack = <<>> /\ idx = 0 /\ result = NoResult

CoerceIdle == co_sub = Var("") /\ co_sup = Var("") /\ co_result = FALSE

CheckIdle ==
    /\ tc_funcs = EmptyMap /\ tc_env = EmptyMap /\ tc_expr = Var("")
    /\ tc_func = Leaf /\ tc_result = NoResult

EvalIdle == ev_funcs = EmptyMap /\ ev_args = <<>> /\ ev_result = NoResult

(* combine is called: nothing is built yet.                                *)
InitCombine ==
    /\ pc = "insert"
    /\ prelude_script \in PreludeScripts
    /\ main_script \in UserScripts
    /\ funcs = EmptyMap
    /\ visits = EmptyMap
    /\ order = <<>>
    /\ stack = <<>>
    /\ idx = 1
    /\ result = NoResult
    /\ CoerceIdle /\ CheckIdle /\ EvalIdle

NextCombine ==
    \/ InsertDecl
    \/ StartOrdering
    \/ VisitMain
    \/ VisitDep
    \/ VisitDone
    \/ CombineReturn

SpecCombine == InitCombine /\ [][NextCombine]_vars

---------------------------------------------------------------------------
(*                 The declaration graph of combine's input                *)

DeclNames     == {Chained[i].name : i \in DOMAIN Chained}
PreludeNames  == Range(prelude_order)
UserDeclNames == {main_script[i].name : i \in DOMAIN main_script}

UniqueNames ==
    \A i, j \in DOMAIN Chained : Chained[i].name = Chained[j].name => i = j

(* Every Var name and Call name that occurs in an expression.              *)
RECURSIVE RefNames(_)
RefNames(expr) ==
    (IF expr.tag \in {"Var", "Call"} THEN {expr.name} ELSE {})
    \cup UNION {RefNames(expr.xs[i]) : i \in DOMAIN expr.xs}

DeclRefs(decl) ==
    UNION {RefNames(decl.args[i].typ) : i \in DOMAIN decl.args}
    \cup RefNames(decl.ret) \cup RefNames(decl.body)

(* The edges that leave the declaration(s) named n.                        *)
Edges(n) == UNION {DeclRefs(Chained[i].decl) : i \in {j \in DOMAIN Chained : Chained[j].name = n}}

(* The names reached from S by paths that pass only through names of N.    *)
RECURSIVE Closure(_, _)
Closure(S, N) ==
    LET T == S \cup UNION {Edges(m) : m \in S \cap N}
    IN  IF T = S THEN S ELSE Closure(T, N)

(* n lies on a cycle all of whose declarations are in N.                   *)
OnCycle(n, N) == n \in N /\ n \in Closure(Edges(n), N)
Cyclic(N)     == \E n \in N : OnCycle(n, N)

(* Every referenced name is a declaration; every name a user declaration   *)
(* references is one.                                                      *)
AllResolved  == \A n \in DeclNames : Edges(n) \subseteq DeclNames
UserResolved == \A n \in UserDeclNames : Edges(n) \subseteq DeclNames

Before(d, n) == \E i, j \in DOMAIN order : i < j /\ order[i] = d /\ order[j] = n

PreludeBeforeUser == \A p \in PreludeNames, u \in UserDeclNames : Before(p, u)

---------------------------------------------------------------------------
(*                          Claims about combine                           *)

(* C1, as stated: whenever the merged declarations have unique names and   *)
(* an acyclic dependency graph (every referenced name being a              *)
(* declaration), combine succeeds, every dependency of every declaration   *)
(* comes earlier in order than the declaration, and every prelude name     *)
(* comes before every user name.                                           *)
C1_TopologicalOrder ==
    (pc = "done" /\ UniqueNames /\ AllResolved /\ ~Cyclic(DeclNames))
        => /\ result.kind = "Ok"
           /\ \A n \in DeclNames : \A d \in Edges(n) : Before(d, n)
           /\ PreludeBeforeUser

(* C1, amended: whenever the merged declarations have unique names and an  *)
(* acyclic dependency graph and every name a user declaration references   *)
(* is declared, combine succeeds, order starts with the prelude's names in *)
(* the prelude's own order, every dependency of every USER declaration     *)
(* comes earlier in order than that declaration, and every prelude name    *)
(* comes before every user name.                                           *)
C1_UserTopologicalOrder ==
    (pc = "done" /\ UniqueNames /\ UserResolved /\ ~Cyclic(DeclNames))
        => /\ result.kind = "Ok"
           /\ Len(order) >= Len(prelude_order)
           /\ SubSeq(order, 1, Len(prelude_order)) = prelude_order
           /\ \A n \in UserDeclNames : \A d \in Edges(n) : Before(d, n)
           /\ PreludeBeforeUser

(* combine has succeeded on an acyclic input in which a user declaration   *)
(* depends on a user declaration written after it and another depends on   *)
(* a prelude declaration.                                                  *)
C1_Witness ==
    /\ pc = "done" /\ result.kind = "Ok"
    /\ UniqueNames /\ UserResolved /\ ~Cyclic(DeclNames)
    /\ \E i, j \in DOMAIN main_script :
            i < j /\ main_script[j].name \in Edges(main_script[i].name)
    /\ \E u \in UserDeclNames : Edges(u) \cap PreludeNames # {}

(* C2, as stated: whenever the merged declarations (unique names, every    *)
(* referenced name declared) contain a dependency cycle, combine fails     *)
(* with Recursion(name), name lying on a cycle.                            *)
C2_CycleRejected ==
    (pc = "done" /\ UniqueNames /\ AllResolved /\ Cyclic(DeclNames))
        => /\ result.kind = "Recursion"
           /\ OnCycle(result.name, DeclNames)

(* C2, amended: whenever the merged declarations have unique names, every  *)
(* name a user declaration references is declared, and there is a cycle    *)
(* made of user declarations only, combine fails with Recursion(name),     *)
(* name being a user declaration on such a cycle.                          *)
C2_UserCycleRejected ==
    (pc = "done" /\ UniqueNames /\ UserResolved /\ Cyclic(UserDeclNames))
        => /\ result.kind = "Recursion"
           /\ OnCycle(result.name, UserDeclNames)

(* combine has failed with Recursion on a cycle that is not a self-loop.   *)
C2_Witness ==
    /\ pc = "done" /\ result.kind = "Recursion"
    /\ UniqueNames /\ UserResolved
    /\ result.name \notin Edges(result.name)
    /\ OnCycle(result.name, UserDeclNames)

(* C3: when a name is declared twice, combine returns DuplicateDecl of a   *)
(* name that occurs twice; and whenever DuplicateDecl is returned no name  *)
(* is marked, nothing is in order and no ordering visit is active.         *)
C3_DuplicateBeforeOrdering ==
    /\ (pc = "done" /\ ~UniqueNames)
        => /\ result.kind = "DuplicateDecl"
           /\ \E i, j \in DOMAIN Chained :
                i # j /\ Chained[i].name = result.name /\ Chained[j].name = result.name
    /\ result.kind = "DuplicateDecl"
        => visits = EmptyMap /\ order = <<>> /\ stack = <<>>

(* DuplicateDecl has been returned for an input that also holds a cycle    *)
(* and a reference to an undeclared name.                                  *)
C3_Witness ==
    /\ pc = "done" /\ result.kind = "DuplicateDecl"
    /\ Cyclic(DeclNames)
    /\ ~AllResolved

(* The innermost active visit, and the name its loop visits next.          *)
TopVisit == stack[Len(stack)]
VisitsNext == pc = "order" /\ stack # <<>> /\ TopVisit.i <= Len(TopVisit.deps)
NextDep == TopVisit.deps[TopVisit.i]

(* C11: every active ordering visit is of a user declaration and walks     *)
(* exactly the names its declaration references by Var or by Call (in an   *)
(* argument type, the return type or the body); when the visit reaches     *)
(* such a name that is not a key of the merged map, combine returns        *)
(* NoSuchDecl of that name; and NoSuchDecl is returned only for a name     *)
(* that is not a key of the merged map.                                     *)
C11_UnresolvedIsNoSuchDecl ==
    /\ [](/\ \A i \in DOMAIN stack :
                /\ stack[i].name \in UserDeclNames \ PreludeNames
                /\ Range(stack[i].deps) = Edges(stack[i].name)
          /\ result.kind = "NoSuchDecl" => result.name \notin DeclNames)
    /\ [][(VisitsNext /\ NextDep \notin DOMAIN funcs)
            => (pc' = "done" /\ result' = CombineError("NoSuchDecl", NextDep))]_vars

(* NoSuchDecl(a) has been returned for b(v: p): p = a([b, 1], b) under    *)
(* the prelude that declares p alone: a is a Call target.                  *)
C11_Witness ==
    /\ pc = "done"
    /\ prelude_script = <<Entry("p", Leaf)>>
    /\ main_script = <<Entry("b", Func(<<Arg("v", Var("p"))>>, Var("p"),
                            Call("a", <<Array(<<Var("b"), ExprInt(1)>>), Var("b")>>)))>>
    /\ result = CombineError("NoSuchDecl", "a")

(* The marker of name n: absent from visits, Visiting or Visited.          *)
Marker(v, n) == IF n \in DOMAIN v THEN v[n] ELSE "Unvisited"

(* C15: whenever combine succeeds, order holds every key of funcs exactly  *)
(* once and nothing else; and in every step of the ordering visits a       *)
(* marker that changes moves from unvisited to visiting or from visiting   *)
(* to visited, and order changes exactly when a marker becomes visited,    *)
(* by the append of that name.                                             *)
C15_OrderIsPermutation ==
    /\ []((pc = "done" /\ result = CombineOk)
            => /\ Range(order) = DOMAIN funcs
               /\ Len(order) = Cardinality(DOMAIN funcs))
    /\ [][pc = "order"
            => /\ \A n \in DOMAIN visits' :
                    \/ Marker(visits', n) = Marker(visits, n)
                    \/ Marker(visits, n) = "Unvisited" /\ Marker(visits', n) = "Visiting"
                    \/ /\ Marker(visits, n) = "Visiting" /\ Marker(visits', n) = "Visited"
                       /\ order' = Append(order, n)
               /\ DOMAIN visits \subseteq DOMAIN visits'
               /\ order' # order
                    => \E n \in DOMAIN visits :
                          Marker(visits, n) = "Visiting" /\ Marker(visits', n) = "Visited"]_vars

(* combine has succeeded on a two-name prelude and three user              *)
(* declarations, one of which is declared before the one it names.         *)
C15_Witness ==
    /\ pc = "done" /\ result = CombineOk
    /\ Len(prelude_script) = 2 /\ Len(main_script) = 3
    /\ \E i, j \in DOMAIN main_script :
            i < j /\ main_script[i].decl = Ref(main_script[j].name)
    /\ Len(order) = 5

---------------------------------------------------------------------------
(*                  The inputs given to can_coerce_type                    *)

MaxTupleLen == 2

list(t)      == Call("list", <<t>>)
vector(t, n) == Call("vector", <<t, n>>)
tuple(ts)    == Call("tuple", <<Array(ts)>>)

ScalarTypes == {Var("uint"), Var("int"), Var("false"), Var("type")}

(* Length expressions: literals, a variable and a call.                    *)
LengthExprs == {ExprInt(k) : k \in 0..MaxTupleLen} \cup {Var("n"), Call("two", <<>>)}

(* The list, vector and tuple forms over a set of element types; a vector  *)
(* is written both with the name vector and as the two-argument list that  *)
(* is_vector_type recognises; a tuple is also given a non-array argument.  *)
TypeForms(elems) ==
    {list(t) : t \in elems}
    \cup {vector(t, n) : t \in elems, n \in LengthExprs}
    \cup {Call("list", <<t, n>>) : t \in elems, n \in LengthExprs}
    \cup {tuple(ts) : ts \in UNION {[1..k -> elems] : k \in 0..MaxTupleLen}}
    \cup {Call("tuple", <<Var("ts")>>)}

NestedElems == {list(Var("uint")), vector(Var("uint"), ExprInt(1)),
                Call("list", <<Var("int"), Var("n")>>), tuple(<<Var("uint")>>)}

TypeExprs == ScalarTypes \cup TypeForms(ScalarTypes) \cup TypeForms(NestedElems)

InitCoerce ==
    /\ pc = "coerce"
    /\ co_sub \in TypeExprs
    /\ co_sup \in TypeExprs
    /\ co_result = FALSE
    /\ CombineIdle /\ CheckIdle /\ EvalIdle

NextCoerce == CanCoerce

SpecCoerce == InitCoerce /\ [][NextCoerce]_vars

---------------------------------------------------------------------------
(*                     Claims about can_coerce_type                        *)

(* C5: can_coerce_type(vector(t0, n), tuple([t1, ..., tk])) holds exactly  *)
(* when n is the integer literal k and t0 is coercible to every ti.        *)
C5_VectorToTuple ==
    (/\ pc = "done"
     /\ co_sub.tag = "Call" /\ co_sub.name = "vector" /\ Len(co_sub.xs) = 2
     /\ co_sup.tag = "Call" /\ co_sup.name = "tuple" /\ Len(co_sup.xs) = 1
     /\ co_sup.xs[1].tag = "Array")
        => co_result = (/\ co_sub.xs[2] = ExprInt(Len(co_sup.xs[1].xs))
                      /\ \A i \in DOMAIN co_sup.xs[1].xs :
                            can_coerce_type(co_sub.xs[1], co_sup.xs[1].xs[i]))

(* C6: can_coerce_type(t, t) is true for every type-expression t.          *)
C6_Reflexive == (pc = "done" /\ co_sub = co_sup) => co_result = TRUE

(* can_coerce_type has been applied to t, t for a nested t with a length   *)
(* that is not a literal.                                                  *)
C6_Witness ==
    /\ pc = "done" /\ co_sub = co_sup /\ co_result
    /\ co_sub.tag = "Call" /\ Len(co_sub.xs) = 2
    /\ co_sub.xs[1].tag = "Call"
    /\ co_sub.xs[2].tag # "Int"

(* C7: uint coerces to int, int does not coerce to uint, and the           *)
(* sub-types accepted for int are exactly int, uint and the literal false.  *)
C7_UintToIntOnly ==
    pc = "done" =>
        /\ co_sup = Var("int") => (co_result <=> co_sub \in {Var("int"), Var("uint"), Var("false")})
        /\ (co_sub = Var("int") /\ co_sup = Var("uint")) => ~co_result

(* can_coerce_type(uint, int) has returned true.                           *)
C7_Witness == pc = "done" /\ co_sub = Var("uint") /\ co_sup = Var("int") /\ co_result

---------------------------------------------------------------------------
(*              The inputs given to check_expr and check_func              *)

MaxElems == 3

(* Literals of either sign, v (bound in the larger environment) and w      *)
(* (bound in none).                                                        *)
CheckAtoms == {ExprInt(1), ExprInt(-1), Var("v"), Var("w")}

ElemSeqs(elems) == UNION {[1..k -> elems] : k \in 0..MaxElems}

(* The checked signatures: list(t: type): type, pair(x: uint)(y: uint):    *)
(* uint, id(t: type)(x: t): t and a constant without formals.              *)
CheckedFuncs ==
    [f \in {"list", "pair", "id", "zero"} |->
        CASE f = "list" -> CheckedFunc(<<Arg("t", Var("type"))>>, Var("type"))
          [] f = "pair" -> CheckedFunc(<<Arg("x", Var("uint")), Arg("y", Var("uint"))>>,
                                       Var("uint"))
          [] f = "id"   -> CheckedFunc(<<Arg("t", Var("type")), Arg("x", Var("t"))>>, Var("t"))
          [] f = "zero" -> CheckedFunc(<<>>, ExprInt(0))]

CheckFuncMaps == {EmptyMap, CheckedFuncs}

CheckEnvs == {EmptyMap, [x \in {"v"} |-> Var("uint")]}

(* Atoms, calls of a checked or an unknown name over atoms, arrays of      *)
(* atoms, and arrays and calls with a call or an array inside.             *)
CheckExprs ==
    CheckAtoms
    \cup {Call(f, xs) : f \in {"list", "pair", "id", "zero", "nofn"}, xs \in ElemSeqs(CheckAtoms)}
    \cup {Array(xs) : xs \in ElemSeqs(CheckAtoms)}
    \cup {Array(<<ExprInt(1), Array(<<ExprInt(-1)>>)>>),
          Array(<<Call("zero", <<>>), Var("v")>>),
          Array(<<Call("pair", <<ExprInt(1)>>)>>),
          Call("pair", <<Call("pair", <<Var("w")>>)>>),
          Call("pair", <<Call("zero", <<>>), Array(<<>>)>>),
          Array(<<ExprInt(1), ExprInt(2), ExprInt(3)>>)}

(* The argument lists and return types of the declaration handed to        *)
(* check_func; its body is the expression handed to check_expr.            *)
CheckArgLists ==
    {<<>>, <<Arg("args", Call("list", <<Var("string")>>))>>, <<Arg("v", Var("uint"))>>}

CheckRets == {Var("uint"), Var("int"), Call("tuple", <<Array(<<Var("uint"), Var("uint")>>)>>)}

InitCheck ==
    /\ pc = "check"
    /\ tc_funcs \in CheckFuncMaps
    /\ tc_env \in CheckEnvs
    /\ tc_expr \in CheckExprs
    /\ tc_func \in {Func(args, ret, tc_expr) : args \in CheckArgLists, ret \in CheckRets}
    /\ tc_result = NoResult
    /\ CombineIdle /\ CoerceIdle /\ EvalIdle

NextCheck ==
    \/ CheckExpr
    \/ CheckFunc

SpecCheck == InitCheck /\ [][NextCheck]_vars

---------------------------------------------------------------------------
(*                 Claims about check_expr and check_func                  *)

(* C8: check_expr on Call(f, actuals), f having a checked signature with   *)
(* k formals and the call m # k actuals, fails with                        *)
(* WrongNumberOfArgs(f, k, m), whatever the actuals are.                   *)
C8_WrongNumberOfArgs ==
    (/\ pc = "checked_expr"
     /\ tc_expr.tag = "Call"
     /\ tc_expr.name \in DOMAIN tc_funcs
     /\ Len(tc_funcs[tc_expr.name].args) # Len(tc_expr.xs))
        => tc_result = WrongNumberOfArgs(tc_expr.name,
                            Len(tc_funcs[tc_expr.name].args), Len(tc_expr.xs))

(* check_expr has been applied to a call of the 2-formal pair with one     *)
(* actual, and that actual is a variable bound nowhere.                    *)
C8_Witness ==
    /\ pc = "checked_expr"
    /\ tc_funcs = CheckedFuncs /\ tc_env = EmptyMap
    /\ tc_expr = Call("pair", <<Var("w")>>)
    /\ tc_result = WrongNumberOfArgs("pair", 2, 1)

(* The type-expressions check_expr gives the elements of an array.         *)
ElemTypes(xs, fs, env) == [i \in DOMAIN xs |-> check_expr(xs[i], fs, env).val]

(* C9: check_expr on an array literal whose elements check returns         *)
(* tuple([t0, ..., tn]), the elements' types in order; and check_func on   *)
(* a declaration whose body is an array of integer literals and whose      *)
(* return type is uint or int fails with CannotCoerceReturnType carrying   *)
(* the tuple type and the declared return type.                            *)
C9_ArrayLiteral ==
    /\ (/\ pc = "checked_expr"
        /\ tc_expr.tag = "Array"
        /\ \A i \in DOMAIN tc_expr.xs : IsOk(check_expr(tc_expr.xs[i], tc_funcs, tc_env)))
        => tc_result = Ok(Call("tuple", <<Array(ElemTypes(tc_expr.xs, tc_funcs, tc_env))>>))
    /\ (/\ pc = "checked_func"
        /\ tc_func.body.tag = "Array"
        /\ \A i \in DOMAIN tc_func.body.xs : tc_func.body.xs[i].tag = "Int"
        /\ tc_func.ret \in {Var("uint"), Var("int")})
        => tc_result = CannotCoerceReturnType(
                            Call("tuple", <<Array(ElemTypes(tc_func.body.xs, tc_funcs, EmptyMap))>>),
                            tc_func.ret)

(* e with every Var that names a key of m replaced by m's expression,      *)
(* every other name left as it is.                                         *)
RECURSIVE Substituted(_, _)
Substituted(e, m) ==
    CASE e.tag = "Int"   -> e
      [] e.tag = "Var"   -> IF e.name \in DOMAIN m THEN m[e.name] ELSE e
      [] e.tag = "Call"  -> Call(e.name, [i \in DOMAIN e.xs |-> Substituted(e.xs[i], m)])
      [] e.tag = "Array" -> Array([i \in DOMAIN e.xs |-> Substituted(e.xs[i], m)])

(* The first k formals of cf bound to the first k actuals xs.              *)
FormalsBound(cf, xs, k) ==
    [x \in {cf.args[j].name : j \in 1..k} |->
        xs[CHOOSE j \in 1..k : cf.args[j].name = x]]

(* C12: check_expr on Call(f, actuals) of matching arity, the formals of f *)
(* having distinct names, every actual checking, and the type of actual i  *)
(* being coercible to formal i's declared type with the formals before i   *)
(* replaced by their actuals, returns f's return type with every formal    *)
(* replaced by its actual; names that are no formals stay and are no       *)
(* error.                                                                  *)
C12_CallSubstitutesFormals ==
    (/\ pc = "checked_expr"
     /\ tc_expr.tag = "Call"
     /\ tc_expr.name \in DOMAIN tc_funcs
     /\ LET cf == tc_funcs[tc_expr.name]
            xs == tc_expr.xs
        IN  /\ Len(cf.args) = Len(xs)
            /\ \A i, j \in DOMAIN cf.args : cf.args[i].name = cf.args[j].name => i = j
            /\ \A i \in DOMAIN xs : IsOk(check_expr(xs[i], tc_funcs, tc_env))
            /\ \A i \in DOMAIN xs :
                    can_coerce_type(check_expr(xs[i], tc_funcs, tc_env).val,
                                    Substituted(cf.args[i].typ, FormalsBound(cf, xs, i - 1))))
        => tc_result = Ok(Substituted(tc_funcs[tc_expr.name].ret,
                            FormalsBound(tc_funcs[tc_expr.name], tc_expr.xs, Len(tc_expr.xs))))

---------------------------------------------------------------------------
(*                     The inputs given to eval_main                       *)

MaxArgs == 1

(* What the body of main may be: an atom, or a call of id or of pair over  *)
(* atoms; the atoms name the nullary declaration five as a Var and as a    *)
(* call without actuals.                                                   *)
EvalAtoms == {Var("five"), Call("five", <<>>), ExprInt(5), ExprInt(-1), Var("args")}

EvalBodies ==
    EvalAtoms
    \cup {Call("id", <<Var("uint"), a>>) : a \in EvalAtoms}
    \cup {Call("pair", <<a, b>>) : a, b \in EvalAtoms}

(* id(t: type)(x: t): t = x;  pair(x: uint)(y: uint): uint = x;            *)
(* five: uint = <body>;  main(args: list(string)): <ret> = <body>.         *)
EvalProgram(five_body, main_ret, main_body) ==
    [f \in {"id", "pair", "five", "main"} |->
        CASE f = "id"   -> Func(<<Arg("t", Var("type")), Arg("x", Var("t"))>>, Var("t"), Var("x"))
          [] f = "pair" -> Func(<<Arg("x", Var("uint")), Arg("y", Var("uint"))>>,
                                Var("uint"), Var("x"))
          [] f = "five" -> Func(<<>>, Var("uint"), five_body)
          [] f = "main" -> Func(<<Arg("args", Call("list", <<Var("string")>>))>>,
                                main_ret, main_body)]

(* The names the formal of shadow may have: x, and names lookup_value      *)
(* knows by itself.                                                        *)
ShadowNames == {"x", "int", "type", "true", "false"}

(* The program with  shadow(<formal>: uint): uint = <formal>;  added.      *)
Shadowing(self, formal) ==
    Put(self, "shadow", Func(<<Arg(formal, Var("uint"))>>, Var("uint"), Var(formal)))

EvalPrograms ==
    {EvalProgram(fb, mr, mb) :
        fb \in {ExprInt(5), ExprInt(-1), Call("id", <<Var("uint"), ExprInt(5)>>)},
        mr \in {Var("uint"), Var("int"), Call("list", <<Var("string")>>)},
        mb \in EvalBodies}
    \cup {Shadowing(EvalProgram(ExprInt(5), mr, Call("shadow", <<a>>)), formal) :
            mr \in {Var("uint"), Var("int")},
            a \in {ExprInt(5), ExprInt(-1), Call("five", <<>>)},
            formal \in ShadowNames}

InitEval ==
    /\ pc = "eval"
    /\ ev_funcs \in EvalPrograms
    /\ ev_args \in UNION {[1..k -> {"s"}] : k \in 0..MaxArgs}
    /\ ev_result = NoResult
    /\ CombineIdle /\ CoerceIdle /\ CheckIdle

NextEval == EvalMain

SpecEval == InitEval /\ [][NextEval]_vars

---------------------------------------------------------------------------
(*                        Claims about eval_main                           *)

(* How often the run evaluated the expression Var(x), and the body of x.   *)
VarRefs(x)   == Cardinality({i \in DOMAIN ev_result.log : ev_result.log[i] = VarEvent(x)})
BodyEvals(x) == Cardinality({i \in DOMAIN ev_result.log : ev_result.log[i] = BodyEvent(x)})

NullaryNames == {f \in DOMAIN ev_funcs : ev_funcs[f].args = <<>>}

(* C4: in one eval_main run, once a Var reference to a nullary declaration *)
(* has been evaluated, the body of that declaration has been evaluated     *)
(* exactly once: by the first reference, and never again.                  *)
C4_NullaryBodyOnce ==
    pc = "evaluated" =>
        \A x \in NullaryNames : VarRefs(x) >= 1 => BodyEvals(x) = 1

(* C10: for id(t: type)(x: t): t = x; five: uint = id(uint)(5);            *)
(* main(args: list(string)): uint = five, eval_main([]) returns the        *)
(* integer 5.                                                              *)
C10_NullaryVarYieldsBody ==
    (/\ pc = "evaluated"
     /\ ev_funcs = EvalProgram(Call("id", <<Var("uint"), ExprInt(5)>>), Var("uint"), Var("five"))
     /\ ev_args = <<>>)
        => ev_result.res = Ok(ValInt(5))

(* The local environment call builds for shadow applied to the value v.    *)
ShadowFormal == ev_funcs["shadow"].args[1].name
ShadowEnv(v) == [x \in {ShadowFormal} |-> v]

(* C13: a name bound in the local environment of the current call          *)
(* evaluates to the value bound there, whatever the name is: for           *)
(* shadow(f: uint): uint = f, eval of Var(f) in the environment of a call  *)
(* of shadow returns the bound value, and main = shadow(n) with a literal  *)
(* n >= 0 returns n.                                                       *)
C13_LocalShadowsGlobal ==
    (/\ pc = "evaluated"
     /\ "shadow" \in DOMAIN ev_funcs
     /\ ev_funcs["main"].body = Call("shadow", <<ExprInt(5)>>))
        => /\ eval(ev_funcs, Var(ShadowFormal), ShadowEnv(ValInt(5))).res = Ok(ValInt(5))
           /\ ev_result.res = Ok(ValInt(5))

(* C14: a run of eval_main never fails because a value given to a formal   *)
(* of main, id, pair, five or shadow, or the result of one of their        *)
(* bodies, does not have the declared type (the one call of a type former  *)
(* in these programs, list(string), has a well-shaped argument).           *)
C14_NoRuntimeTypeCheck ==
    pc = "evaluated" => ev_result.res.kind \notin {"ArgIsWrongType", "ResultIsWrongType"}

====
